---- MODULE Spec2Model ----
(***************************************************************************)
(* Model of src/funcs/historical.js: the JHU CSSE time-series ingestion    *)
(* (getCsvData, parseCsvData, historicalV2) and the two readers of the     *)
(* persisted collection (getHistoricalCountryDataV2,                       *)
(* getHistoricalAllDataV2).                                                *)
(*                                                                         *)
(* Representation.  A JavaScript string is a sequence of one-character     *)
(* strings, so that parseInt, Number, toLowerCase and the CSV split work   *)
(* on characters.  A JavaScript primitive is a record [t, n, s]: its type  *)
(* tag, its numeric value and its string value.  An object whose keys are  *)
(* data (a timeline) is the sequence of its [k, v] properties in insertion *)
(* order; the date labels used here are never canonical array indices, so  *)
(* insertion order is the enumeration order.  An object with fixed keys    *)
(* (a Location, a countryInfo) is a record; a deleted property is a field  *)
(* missing from the record.                                                *)
(***************************************************************************)
EXTENDS Integers, Sequences, FiniteSets

\* Bounds of the model.
MaxRows == 2
MaxDates == 2
MaxPasses == 2
MaxRuns == 2

Min(a, b) == IF a < b THEN a ELSE b

(***************************************************************************)
(* JavaScript values and the built-in conversions the source relies on.    *)
(***************************************************************************)
Undefined == [t |-> "undefined", n |-> 0, s |-> <<>>]
Null == [t |-> "null", n |-> 0, s |-> <<>>]
NaN == [t |-> "NaN", n |-> 0, s |-> <<>>]
Num(k) == [t |-> "number", n |-> k, s |-> <<>>]
Str(x) == [t |-> "string", n |-> 0, s |-> x]

\* ToBoolean: undefined, null, NaN, 0 and "" are falsy.
Truthy(v) ==
    CASE v.t = "number" -> v.n # 0
      [] v.t = "string" -> v.s # <<>>
      [] OTHER -> FALSE

\* a || b
JsOr(a, b) == IF Truthy(a) THEN a ELSE b

DecDigits == <<"0", "1", "2", "3", "4", "5", "6", "7", "8", "9">>
HexDigits == DecDigits \o <<"a", "b", "c", "d", "e", "f">>
UpperCase == <<"A", "B", "C", "D", "E", "F", "G", "H", "I", "J", "K", "L", "M",
               "N", "O", "P", "Q", "R", "S", "T", "U", "V", "W", "X", "Y", "Z">>
LowerCase == <<"a", "b", "c", "d", "e", "f", "g", "h", "i", "j", "k", "l", "m",
               "n", "o", "p", "q", "r", "s", "t", "u", "v", "w", "x", "y", "z">>

LowerChar(c) ==
    IF \E i \in 1..Len(UpperCase) : UpperCase[i] = c
    THEN LowerCase[CHOOSE i \in 1..Len(UpperCase) : UpperCase[i] = c]
    ELSE c

\* String.prototype.toLowerCase
toLowerCase(s) == [i \in 1..Len(s) |-> LowerChar(s[i])]

IsWhite(c) == c \in {" ", "\t", "\n", "\r"}

RECURSIVE TrimStart(_)
TrimStart(s) == IF s # <<>> /\ IsWhite(Head(s)) THEN TrimStart(Tail(s)) ELSE s

RECURSIVE TrimEnd(_)
TrimEnd(s) ==
    IF s # <<>> /\ IsWhite(s[Len(s)]) THEN TrimEnd(SubSeq(s, 1, Len(s) - 1)) ELSE s

\* The value of digit c in the radix, -1 when c is no digit of it.
DigitValue(c, radix) ==
    LET lc == LowerChar(c)
    IN  IF \E i \in 1..radix : HexDigits[i] = lc
        THEN (CHOOSE i \in 1..radix : HexDigits[i] = lc) - 1
        ELSE -1

\* The longest prefix of digits of s: whether there is one, its value, the rest.
RECURSIVE ParseDigits(_, _, _, _)
ParseDigits(s, radix, acc, any) ==
    IF s = <<>> \/ DigitValue(Head(s), radix) < 0
    THEN [any |-> any, val |-> acc, rest |-> s]
    ELSE ParseDigits(Tail(s), radix, acc * radix + DigitValue(Head(s), radix), TRUE)

RECURSIVE NatToString(_)
NatToString(k) ==
    IF k < 10 THEN <<DecDigits[k + 1]>>
    ELSE NatToString(k \div 10) \o <<DecDigits[(k % 10) + 1]>>

\* ToString of a primitive.
JsToString(v) ==
    CASE v.t = "string" -> v.s
      [] v.t = "number" -> IF v.n < 0 THEN <<"-">> \o NatToString(-v.n)
                           ELSE NatToString(v.n)
      [] v.t = "undefined" -> <<"u", "n", "d", "e", "f", "i", "n", "e", "d">>
      [] v.t = "null" -> <<"n", "u", "l", "l">>
      [] OTHER -> <<"N", "a", "N">>

\* parseInt(v) with no radix: leading white space, a sign, 0x for radix 16, then
\* the longest run of digits; NaN when there is none.
parseInt(v) ==
    LET s0 == TrimStart(JsToString(v))
        neg == s0 # <<>> /\ Head(s0) = "-"
        s1 == IF s0 # <<>> /\ Head(s0) \in {"+", "-"} THEN Tail(s0) ELSE s0
        hex == Len(s1) >= 2 /\ s1[1] = "0" /\ s1[2] \in {"x", "X"}
        s2 == IF hex THEN SubSeq(s1, 3, Len(s1)) ELSE s1
        r == ParseDigits(s2, IF hex THEN 16 ELSE 10, 0, FALSE)
    IN  IF ~r.any THEN NaN ELSE Num(IF neg THEN -r.val ELSE r.val)

\* Number(v) of a string of white space, signs and decimal digits (the alphabet
\* of the queries of this model: no fraction, exponent, radix prefix, Infinity).
Number(v) ==
    IF v.t = "number" THEN v
    ELSE IF v.t # "string" THEN (IF v.t = "null" THEN Num(0) ELSE NaN)
    ELSE LET s0 == TrimEnd(TrimStart(v.s))
             neg == s0 # <<>> /\ Head(s0) = "-"
             s1 == IF s0 # <<>> /\ Head(s0) \in {"+", "-"} THEN Tail(s0) ELSE s0
             r == ParseDigits(s1, 10, 0, FALSE)
         IN  IF s0 = <<>> THEN Num(0)
             ELSE IF r.any /\ r.rest = <<>> THEN Num(IF neg THEN -r.val ELSE r.val)
             ELSE NaN

\* isNaN(v)
isNaN(v) == Number(v).t = "NaN"

\* a + b on numbers, null, undefined and NaN
JsAdd(a, b) ==
    LET na == Number(a)
        nb == Number(b)
    IN  IF na.t = "NaN" \/ nb.t = "NaN" THEN NaN ELSE Num(na.n + nb.n)

\* row[i], i from 0
Cell(row, i) == IF i < Len(row) THEN Str(row[i + 1]) ELSE Undefined

\* obj[k] = v: a new key is appended, an old one keeps its place.
ObjSet(obj, k, v) ==
    IF \E i \in 1..Len(obj) : obj[i].k = k
    THEN [i \in 1..Len(obj) |-> IF obj[i].k = k THEN [k |-> k, v |-> v] ELSE obj[i]]
    ELSE Append(obj, [k |-> k, v |-> v])

\* obj[k]
ObjGet(obj, k) ==
    IF \E i \in 1..Len(obj) : obj[i].k = k
    THEN obj[CHOOSE i \in 1..Len(obj) : obj[i].k = k].v
    ELSE Undefined

\* Object.keys(obj)
ObjKeys(obj) == [i \in 1..Len(obj) |-> obj[i].k]

KeySet(obj) == {obj[i].k : i \in 1..Len(obj)}

(***************************************************************************)
(* Collaborators outside src/: ../utils/country_utils and ./countryMap.    *)
(* They are modelled from the specification: getCountryData maps a country *)
(* name to its identity record, or to a sentinel record of nulls;          *)
(* standardizeCountryName maps a known alias to its canonical name and     *)
(* any other text to itself.                                               *)
(***************************************************************************)
sItaly == <<"I", "t", "a", "l", "y">>
sChina == <<"C", "h", "i", "n", "a">>
sUnknownland == <<"U", "n", "k", "n", "o", "w", "n", "l", "a", "n", "d">>
sHubei == <<"H", "u", "b", "e", "i">>
sMacaoSAR == <<"M", "a", "c", "a", "o", " ", "S", "A", "R">>
sMacau == <<"m", "a", "c", "a", "u">>
sNullWord == <<"n", "u", "l", "l">>

\* The identities the normalization collaborator knows.
countryTable ==
    { [_id |-> Num(380), country |-> Str(sItaly), iso2 |-> Str(<<"I", "T">>),
       iso3 |-> Str(<<"I", "T", "A">>)],
      [_id |-> Num(156), country |-> Str(sChina), iso2 |-> Str(<<"C", "N">>),
       iso3 |-> Str(<<"C", "H", "N">>)] }

nullReturn == [_id |-> Null, country |-> Null, iso2 |-> Null, iso3 |-> Null]

PickIdentity(found) == IF found = {} THEN nullReturn ELSE CHOOSE c \in found : TRUE

NamedLike(lowered) == {c \in countryTable : toLowerCase(c.country.s) = lowered}

\* countryUtils.getCountryData(text): never fails.
getCountryData(v) ==
    IF v.t = "string" THEN PickIdentity(NamedLike(toLowerCase(v.s))) ELSE nullReturn

\* countryMap.standardizeCountryName(text)
standardizeCountryName(s) == IF s = toLowerCase(sMacaoSAR) THEN sMacau ELSE s

(***************************************************************************)
(* historicalV2, lines 54-85: the synchronous tail of a build run, from    *)
(* the three parsed tables to the store.  The tables are JavaScript arrays *)
(* and splice(4) cuts them in place, so the merge threads them as state.   *)
(***************************************************************************)
\* row.splice(4): the cells from index 4 on are removed from the row and returned.
splice4(row) ==
    [removed |-> SubSeq(row, 5, Len(row)), kept |-> SubSeq(row, 1, Min(4, Len(row)))]

EmptyTimeline == [cases |-> <<>>, deaths |-> <<>>, recovered |-> <<>>]

\* Lines 65-69: one entry per cell of the cases row.
RECURSIVE TimelineLoop(_, _, _, _, _, _)
TimelineLoop(i, cases, deaths, recovered, timelineKey, timeline) ==
    IF i >= Len(cases) THEN timeline
    ELSE LET key == JsToString(Cell(timelineKey, i))
         IN  TimelineLoop(i + 1, cases, deaths, recovered, timelineKey,
                 [cases |-> ObjSet(timeline.cases, key, parseInt(Cell(cases, i))),
                  deaths |-> ObjSet(timeline.deaths, key, parseInt(Cell(deaths, i))),
                  recovered |-> ObjSet(timeline.recovered, key,
                                       parseInt(JsOr(Cell(recovered, i), Num(0))))])

\* Lines 73-76, countryData being the identity line 72 resolved.
newElement(row, countryData, timeline) ==
    [country |-> JsOr(countryData.country, Cell(row, 1)),
     countryInfo |-> countryData,
     province |-> IF Cell(row, 0) = Str(<<>>) THEN Null
                  ELSE Str(standardizeCountryName(toLowerCase(Cell(row, 0).s))),
     timeline |-> timeline]

\* Lines 72-77: country, countryInfo and province of a row cut to its metadata.
Annotate(row, timeline) == newElement(row, getCountryData(Cell(row, 1)), timeline)

\* Lines 57-77: the map callback at one index.  It throws a TypeError when the
\* deaths table has no such row (line 62) or the row has no cell 0 (line 76).
MapStep(st, index) ==
    LET c == splice4(st.parsedCases[index + 1])
        cut == [st EXCEPT !.parsedCases[index + 1] = c.kept]
    IN  IF index >= Len(st.parsedDeaths) THEN [cut EXCEPT !.threw = TRUE]
        ELSE
        LET d == splice4(st.parsedDeaths[index + 1])
            hasRow == index < Len(st.parsedRecovered)
            r == IF hasRow THEN splice4(st.parsedRecovered[index + 1])
                 ELSE splice4(<<>>)
            cut3 == [cut EXCEPT !.parsedDeaths[index + 1] = d.kept,
                                !.parsedRecovered =
                                    IF hasRow THEN [@ EXCEPT ![index + 1] = r.kept] ELSE @]
            timeline == TimelineLoop(0, c.removed, d.removed, r.removed,
                                     st.timelineKey, EmptyTimeline)
        IN  IF c.kept = <<>> THEN [cut3 EXCEPT !.threw = TRUE]
            ELSE [cut3 EXCEPT !.result = Append(@, Annotate(c.kept, timeline))]

RECURSIVE MapRows(_, _)
MapRows(st, index) ==
    IF st.threw \/ index >= Len(st.parsedCases) THEN st
    ELSE MapRows(MapStep(st, index), index + 1)

\* Lines 54-78.  An empty cases table throws at line 54.
MergeTables(cases, deaths, recovered) ==
    IF cases = <<>>
    THEN [threw |-> TRUE, parsedCases |-> cases, parsedDeaths |-> deaths,
          parsedRecovered |-> recovered, timelineKey |-> <<>>, result |-> <<>>]
    ELSE MapRows([threw |-> FALSE,
                  parsedCases |-> [cases EXCEPT ![1] = splice4(cases[1]).kept],
                  parsedDeaths |-> deaths,
                  parsedRecovered |-> recovered,
                  timelineKey |-> splice4(cases[1]).removed,
                  result |-> <<>>], 0)

\* A slip: the last element dropped instead of the first.
removeLastObj(result) == SubSeq(result, 1, Len(result) - 1)

\* Line 82: result.splice(1), the elements from index 1 on.
removeFirstObj(result) == SubSeq(result, 2, Len(result))

\* JSON.stringify of a timeline value: NaN is written as null.
JsonValue(v) == IF v.t = "NaN" THEN Null ELSE v

JsonObject(obj) == [i \in 1..Len(obj) |-> [k |-> obj[i].k, v |-> JsonValue(obj[i].v)]]

JsonLocation(loc) ==
    [loc EXCEPT !.timeline = [cases |-> JsonObject(@.cases),
                              deaths |-> JsonObject(@.deaths),
                              recovered |-> JsonObject(@.recovered)]]

\* Line 83: JSON.stringify(removeFirstObj).  The text is kept as the document
\* it denotes.
JSONStringify(collection) ==
    [json |-> [i \in 1..Len(collection) |-> JsonLocation(collection[i])]]

JSONParse(string) == string.json

\* A slip: the write placed in the map callback, once per row built.
StoreWritesEachRow(result) ==
    [i \in 1..Len(result) |-> JSONStringify(SubSeq(result, 2, i))]

\* Lines 82-84: the values the run hands to redis.set, in order.
StoreWrites(result) == <<JSONStringify(removeFirstObj(result))>>

(***************************************************************************)
(* parseCsvData, lines 33-39: csvtojson with noheader and output 'csv'     *)
(* returns every line of the text as a row of cells, each cell trimmed of  *)
(* the white space around it.  The texts of this model hold no quotes and  *)
(* no blank lines.                                                         *)
(***************************************************************************)
\* The k-th smallest of a set of positions.
Nth(positions, k) ==
    CHOOSE i \in positions : Cardinality({j \in positions : j < i}) = k - 1

\* The pieces of s between the separators at the given positions.
SplitAt(s, positions) ==
    [k \in 1..(Cardinality(positions) + 1) |->
        SubSeq(s,
               IF k = 1 THEN 1 ELSE Nth(positions, k - 1) + 1,
               IF k = Cardinality(positions) + 1 THEN Len(s)
               ELSE Nth(positions, k) - 1)]

\* String.prototype.split(sep)
Split(s, sep) == SplitAt(s, {i \in 1..Len(s) : s[i] = sep})

DropLastIfEmpty(pieces) ==
    IF pieces[Len(pieces)] = <<>> THEN SubSeq(pieces, 1, Len(pieces) - 1)
    ELSE pieces

\* The lines of a text: a line break ends a line, and what follows the last
\* line break is a line when it is not empty.
Lines(text) == DropLastIfEmpty(Split(text, "\n"))

TrimCells(cells) == [j \in 1..Len(cells) |-> TrimEnd(TrimStart(cells[j]))]

RowsOf(lines) == [i \in 1..Len(lines) |-> TrimCells(Split(lines[i], ","))]

parseCsvData(data) == RowsOf(Lines(data))

(***************************************************************************)
(* The input tables.  A feed is three tables over the same locations: a    *)
(* header row and n data rows of four metadata cells and one count cell    *)
(* per date.  A defect changes one of the three tables in one place:       *)
(* another text in a count cell, a row one cell short or long, or the      *)
(* table cut to fewer rows.                                                *)
(***************************************************************************)
HeaderMeta ==
    << <<"P", "r", "o", "v", "i", "n", "c", "e", "/", "S", "t", "a", "t", "e">>,
       <<"C", "o", "u", "n", "t", "r", "y", "/", "R", "e", "g", "i", "o", "n">>,
       <<"L", "a", "t">>, <<"L", "o", "n", "g">> >>

\* <<province, country>> of a data row.
MetaPool ==
    { <<<<>>, sItaly>>, <<sHubei, sChina>>, <<sMacaoSAR, sChina>>,
      <<<<>>, sUnknownland>> }

\* The rows of the feeds the merge is run over.
MergeMetaPool == { <<<<>>, sItaly>>, <<sHubei, sChina>> }

DateLabel(j) == <<"1", "/", "2", DecDigits[j + 1], "/", "2", "0">>

TableKinds == {"cases", "deaths", "recovered"}

\* The well-formed count of a table at data row i and date j.
RegularCount(kind, i, j) ==
    CASE kind = "cases" -> ((i + j) % 3) * 7
      [] kind = "deaths" -> (i * j) % 4
      [] OTHER -> (i + 2 * j) % 5

\* Texts a count cell may hold instead of a number.
CellTokens ==
    { <<"x">>, <<>>, <<"-", "3">>, <<"1", "2", "a">>, <<"0", "x", "1", "f">>,
      <<"1", ".", "9">> }

NoDefect == [table |-> "none", kind |-> "none", row |-> 0, col |-> 0, token |-> <<>>]

Defects(n, nd) ==
    {NoDefect}
    \cup [table : TableKinds, kind : {"token"}, row : 1..n, col : 1..nd,
          token : CellTokens]
    \cup [table : TableKinds, kind : {"short", "long"}, row : 1..n, col : {0},
          token : {<<>>}]
    \cup [table : TableKinds, kind : {"cut"}, row : 0..n, col : {0}, token : {<<>>}]

RegularCells(kind, i, nd) ==
    [j \in 1..nd |-> NatToString(RegularCount(kind, i, j))]

RowCells(kind, i, nd, defect) ==
    LET cells == RegularCells(kind, i, nd)
    IN  IF defect.table # kind \/ defect.row # i THEN cells
        ELSE CASE defect.kind = "token" -> [cells EXCEPT ![defect.col] = defect.token]
               [] defect.kind = "short" -> SubSeq(cells, 1, nd - 1)
               [] defect.kind = "long" -> Append(cells, <<"9">>)
               [] OTHER -> cells

\* The table of one kind: its header and data rows, cut to defect.row rows by a
\* "cut" defect.
Table(kind, metas, nd, defect) ==
    LET n == Len(metas)
        rows == [i \in 1..(n + 1) |->
                    IF i = 1 THEN HeaderMeta \o [j \in 1..nd |-> DateLabel(j)]
                    ELSE metas[i - 1] \o << <<"0">>, <<"0">> >>
                         \o RowCells(kind, i - 1, nd, defect)]
    IN  IF defect.table = kind /\ defect.kind = "cut"
        THEN SubSeq(rows, 1, defect.row)
        ELSE rows

Feed(metas, nd, defect) ==
    [cases |-> Table("cases", metas, nd, defect),
     deaths |-> Table("deaths", metas, nd, defect),
     recovered |-> Table("recovered", metas, nd, defect)]

MetaSeqs(pool) == UNION {[1..n -> pool] : n \in 0..MaxRows}

\* Every feed with at most one defect.
Feeds ==
    UNION { {Feed(metas, nd, defect) : defect \in Defects(Len(metas), nd)} :
            metas \in MetaSeqs(MergeMetaPool), nd \in 0..MaxDates }

VARIABLES
    parsedCases,      \* the merge: the parsed cases table, as the passes leave it
    parsedDeaths,     \* the merge: the parsed deaths table
    parsedRecovered,  \* the merge: the parsed recovered table
    input,            \* the merge: the three tables as parsed
    passes,           \* the merge: the outcome of each pass over the tables
    redis,            \* the store: the value under keys.historical_v2
    pc,               \* a build run: where historicalV2 or getCsvData stands
    response,         \* a build run: the data of the three responses
    csvData,          \* a build run: what getCsvData returned
    parsed,           \* a build run: the tables parsed so far
    console,          \* a build run: the lines it logged
    setLog,           \* the redis.set calls in order: the run and the value
    data,             \* a reader: the collection it parsed from the store
    before,           \* a reader: the collection as its last call found it
    call,             \* a reader: its last call and the arguments
    outcome           \* a reader: what the last call returned or threw

mergeVars == <<parsedCases, parsedDeaths, parsedRecovered, input, passes>>
buildVars == <<pc, response, csvData, parsed, console, setLog>>
queryVars == <<data, before, call, outcome>>
vars == <<mergeVars, redis, buildVars, queryVars>>

\* No value under the key.
NoValue == [json |-> <<"(nil)">>]

Runs == 1..MaxRuns

NoTables == [cases |-> <<>>, deaths |-> <<>>, recovered |-> <<>>]

BuildIdle ==
    /\ pc = [r \in Runs |-> "idle"]
    /\ response = [r \in Runs |-> NoTables]
    /\ csvData = [r \in Runs |-> "pending"]
    /\ parsed = [r \in Runs |-> NoTables]
    /\ console = [r \in Runs |-> <<>>]
    /\ setLog = <<>>

MergeIdle ==
    /\ input = NoTables
    /\ parsedCases = <<>>
    /\ parsedDeaths = <<>>
    /\ parsedRecovered = <<>>
    /\ passes = <<>>

NoCall == [fn |-> "none", query |-> Null, province |-> Null]

NoOutcome == [kind |-> "none"]

QueryIdle ==
    /\ data = <<>>
    /\ before = <<>>
    /\ call = NoCall
    /\ outcome = NoOutcome

(***************************************************************************)
(* SpecMerge: lines 54-85 over one feed's parsed tables, and over the same *)
(* arrays again.                                                           *)
(***************************************************************************)
InitMerge ==
    /\ input \in Feeds
    /\ parsedCases = input.cases
    /\ parsedDeaths = input.deaths
    /\ parsedRecovered = input.recovered
    /\ passes = <<>>
    /\ redis = NoValue
    /\ BuildIdle
    /\ QueryIdle

MergePass ==
    /\ Len(passes) < MaxPasses
    /\ \E m \in {MergeTables(parsedCases, parsedDeaths, parsedRecovered)} :
       \E writes \in {IF m.threw THEN <<>> ELSE StoreWrites(m.result)} :
           /\ parsedCases' = m.parsedCases
           /\ parsedDeaths' = m.parsedDeaths
           /\ parsedRecovered' = m.parsedRecovered
           /\ passes' = Append(passes, [threw |-> m.threw, result |-> m.result,
                                        writes |-> writes])
           /\ redis' = IF writes = <<>> THEN redis ELSE writes[Len(writes)]
    /\ UNCHANGED <<input, buildVars, queryVars>>

NextMerge == MergePass

SpecMerge == InitMerge /\ [][NextMerge]_vars

(***************************************************************************)
(* SpecBuild: build runs, each a call of historicalV2, interleaved at      *)
(* their awaits.  What a fetch returns is the file published at that       *)
(* moment: a table of one of two feeds of different sizes.                 *)
(***************************************************************************)
RECURSIVE Join(_, _)
Join(pieces, sep) ==
    IF pieces = <<>> THEN <<>>
    ELSE IF Len(pieces) = 1 THEN pieces[1]
    ELSE pieces[1] \o <<sep>> \o Join(Tail(pieces), sep)

\* The text of a table: its cells joined by commas, each row ended by a line break.
RECURSIVE CsvText(_)
CsvText(table) ==
    IF table = <<>> THEN <<>>
    ELSE Join(table[1], ",") \o <<"\n">> \o CsvText(Tail(table))

SmallFeed == Feed(<< <<<<>>, sItaly>> >>, 1, NoDefect)

LargeFeed ==
    Feed([i \in 1..MaxRows |-> IF i % 2 = 1 THEN <<sHubei, sChina>>
                               ELSE <<<<>>, sItaly>>], MaxDates, NoDefect)

Published(kind) == {CsvText(SmallFeed[kind]), CsvText(LargeFeed[kind])}

FetchOf == [fetchCases |-> "cases", fetchDeaths |-> "deaths",
            fetchRecovered |-> "recovered"]

AfterFetch == [fetchCases |-> "fetchDeaths", fetchDeaths |-> "fetchRecovered",
               fetchRecovered |-> "resume"]

ErrorLine == <<"e", "r", "r">>

\* Line 85: the line logged after the write.
UpdatedLine(count) ==
    <<"U", "p", "d", "a", "t", "e", "d", " ">> \o NatToString(count)

InitBuild ==
    /\ MergeIdle
    /\ redis = NoValue
    /\ BuildIdle
    /\ QueryIdle

\* historicalV2 is called (line 47) and getCsvData issues its first request
\* (line 18).
Start(r) ==
    /\ pc[r] = "idle"
    /\ pc' = [pc EXCEPT ![r] = "fetchCases"]
    /\ UNCHANGED <<mergeVars, queryVars, redis, response, csvData, parsed, console, setLog>>

\* Lines 18-21: a request of getCsvData succeeds and the next is issued; after
\* the third the function returns the three responses, which settles the
\* promise historicalV2 awaits at line 48.
FetchOk(r) ==
    /\ pc[r] \in DOMAIN FetchOf
    /\ \E text \in Published(FetchOf[pc[r]]) :
           response' = [response EXCEPT ![r][FetchOf[pc[r]]] = text]
    /\ csvData' = [csvData EXCEPT ![r] = IF pc[r] = "fetchRecovered" THEN "object"
                                         ELSE @]
    /\ pc' = [pc EXCEPT ![r] = AfterFetch[@]]
    /\ UNCHANGED <<mergeVars, queryVars, redis, parsed, console, setLog>>

\* Lines 22-25: a request fails; getCsvData logs the error and returns null,
\* and its responses go out of scope.  historicalV2 is still waiting at line 48.
FetchFail(r) ==
    /\ pc[r] \in DOMAIN FetchOf
    /\ console' = [console EXCEPT ![r] = Append(@, ErrorLine)]
    /\ csvData' = [csvData EXCEPT ![r] = "null"]
    /\ response' = [response EXCEPT ![r] = NoTables]
    /\ pc' = [pc EXCEPT ![r] = "resume"]
    /\ UNCHANGED <<mergeVars, queryVars, redis, parsed, setLog>>

\* Lines 48-49: historicalV2 resumes after the await and takes the result of
\* getCsvData apart: destructuring null throws a TypeError, which rejects the
\* run's promise; otherwise the first parse starts.
Resume(r) ==
    /\ pc[r] = "resume"
    /\ pc' = [pc EXCEPT ![r] = IF csvData[r] = "null" THEN "rejected"
                                ELSE "parseCases"]
    /\ UNCHANGED <<mergeVars, queryVars, redis, response, csvData, parsed, console,
                   setLog>>

\* Lines 49-50: the cases text is parsed and the deaths parse starts.
ParseCases(r) ==
    /\ pc[r] = "parseCases"
    /\ parsed' = [parsed EXCEPT ![r].cases = parseCsvData(response[r].cases)]
    /\ pc' = [pc EXCEPT ![r] = "parseDeaths"]
    /\ UNCHANGED <<mergeVars, queryVars, redis, response, csvData, console, setLog>>

\* Lines 50-51.
ParseDeaths(r) ==
    /\ pc[r] = "parseDeaths"
    /\ parsed' = [parsed EXCEPT ![r].deaths = parseCsvData(response[r].deaths)]
    /\ pc' = [pc EXCEPT ![r] = "parseRecovered"]
    /\ UNCHANGED <<mergeVars, queryVars, redis, response, csvData, console, setLog>>

\* Lines 51-85: the recovered text is parsed, and the rest of historicalV2 runs
\* without another await: the merge, the write and the log line, or a TypeError
\* out of the merge, which rejects the run's promise.
ParseRecoveredAndMerge(r) ==
    /\ pc[r] = "parseRecovered"
    /\ \E m \in {MergeTables(parsed[r].cases, parsed[r].deaths,
                             parseCsvData(response[r].recovered))} :
       \E writes \in {IF m.threw THEN <<>> ELSE StoreWrites(m.result)} :
           /\ parsed' = [parsed EXCEPT ![r] = [cases |-> m.parsedCases,
                                               deaths |-> m.parsedDeaths,
                                               recovered |-> m.parsedRecovered]]
           /\ setLog' = setLog \o [i \in 1..Len(writes) |->
                                      [run |-> r, value |-> writes[i]]]
           /\ redis' = IF writes = <<>> THEN redis ELSE writes[Len(writes)]
           /\ console' = [console EXCEPT ![r] =
                             IF m.threw THEN @
                             ELSE Append(@, UpdatedLine(Len(removeFirstObj(m.result))))]
           /\ pc' = [pc EXCEPT ![r] = IF m.threw THEN "rejected" ELSE "returned"]
    /\ UNCHANGED <<mergeVars, queryVars, response, csvData>>

NextBuild ==
    \E r \in Runs :
        \/ Start(r)
        \/ FetchOk(r)
        \/ FetchFail(r)
        \/ Resume(r)
        \/ ParseCases(r)
        \/ ParseDeaths(r)
        \/ ParseRecoveredAndMerge(r)

SpecBuild == InitBuild /\ [][NextBuild]_vars

(***************************************************************************)
(* getHistoricalCountryDataV2, lines 95-125.                               *)
(***************************************************************************)
HasCountryInfo(item) == "countryInfo" \in DOMAIN item

\* A slip: the fields compared without the 'null' fallback, so that null
\* equals null.
NameMatchNoFallback(countryInfo, countryINFO) ==
    \E f \in {"country", "iso2", "iso3"} : countryInfo[f] = countryINFO[f]

\* Lines 106-108 and 110-112: the identity test of name mode.
NameMatch(countryInfo, countryINFO) ==
    \E f \in {"country", "iso2", "iso3"} :
        JsOr(countryInfo[f], Str(sNullWord)) = countryINFO[f]

\* Lines 117 and 119: the identity test of id mode.
IdMatch(countryInfo, query) == countryInfo._id = Number(query)

\* A slip: the province never compared.
ProvinceIgnored(item, province) == TRUE

\* Lines 105 and 116: item.province && item.province === province
ProvinceMatch(item, province) == Truthy(item.province) /\ item.province = province

\* Lines 103-119: the callback of data.find on one item: "true", "false", or
\* "threw" when it reads a field of the countryInfo the item no longer has.
Callback(item, query, province, countryINFO) ==
    IF Truthy(province) /\ ~ProvinceMatch(item, province) THEN "false"
    ELSE IF ~HasCountryInfo(item) THEN "threw"
    ELSE IF isNaN(query)
         THEN (IF NameMatch(item.countryInfo, countryINFO) THEN "true" ELSE "false")
         ELSE (IF IdMatch(item.countryInfo, query) THEN "true" ELSE "false")

\* Array.prototype.find: the index from 1 of the first item the callback accepts,
\* 0 when it accepts none, -1 when it threw before that.
RECURSIVE Scan(_, _, _, _, _)
Scan(items, i, query, province, countryINFO) ==
    IF i > Len(items) THEN 0
    ELSE IF Callback(items[i], query, province, countryINFO) = "true" THEN i
    ELSE IF Callback(items[i], query, province, countryINFO) = "threw" THEN -1
    ELSE Scan(items, i + 1, query, province, countryINFO)

\* A slip: the field left in place.
KeepCountryInfo(item) == item

\* Line 122: delete filteredData.countryInfo
DeleteCountryInfo(item) == [f \in DOMAIN item \ {"countryInfo"} |-> item[f]]

\* Lines 122-124 for the index the scan ended with: the collection as the call
\* leaves it, and what the call returns or throws.
FindResult(items, found) ==
    IF found = -1 THEN [data |-> items, outcome |-> [kind |-> "threw"]]
    ELSE IF found = 0 THEN [data |-> items, outcome |-> [kind |-> "undefined"]]
    ELSE [data |-> [items EXCEPT ![found] = DeleteCountryInfo(@)],
          outcome |-> [kind |-> "value", value |-> DeleteCountryInfo(items[found])]]

getHistoricalCountryDataV2(items, query, province) ==
    FindResult(items, Scan(items, 1, query, province, getCountryData(query)))

(***************************************************************************)
(* getHistoricalAllDataV2, lines 132-148.                                  *)
(***************************************************************************)
\* A slip: the count assigned, never added.
AccumulateOverwrite(total, key, value) == ObjSet(total, key, value)

\* Lines 138 and 139: total[key] ? total[key] += value : total[key] = value
Accumulate(total, key, value) ==
    IF Truthy(ObjGet(total, key)) THEN ObjSet(total, key, JsAdd(ObjGet(total, key), value))
    ELSE ObjSet(total, key, value)

\* Lines 136-141: the keys of one country's timeline.cases, from the i-th on.
RECURSIVE AddKeys(_, _, _, _)
AddKeys(sums, timeline, keys, i) ==
    IF i > Len(keys) THEN sums
    ELSE AddKeys([cases |-> Accumulate(sums.cases, keys[i], ObjGet(timeline.cases, keys[i])),
                  deaths |-> Accumulate(sums.deaths, keys[i],
                                        ObjGet(timeline.deaths, keys[i]))],
                 timeline, keys, i + 1)

\* Lines 135-143: the countries from the i-th on.
RECURSIVE AddCountries(_, _, _)
AddCountries(sums, items, i) ==
    IF i > Len(items) THEN sums
    ELSE AddCountries(AddKeys(sums, items[i].timeline, ObjKeys(items[i].timeline.cases), 1),
                      items, i + 1)

getHistoricalAllDataV2(items) == AddCountries([cases |-> <<>>, deaths |-> <<>>], items, 1)

(***************************************************************************)
(* SpecQuery: a reader holds the collection it parsed from the store after *)
(* a build over a well-formed feed, and calls the two readers on it.       *)
(***************************************************************************)
\* The value a build over the feed leaves in the store.
BuiltValue(feed) ==
    JSONStringify(removeFirstObj(
        MergeTables(feed.cases, feed.deaths, feed.recovered).result))

WellFormedFeeds ==
    {Feed(metas, nd, NoDefect) : metas \in MetaSeqs(MetaPool), nd \in 0..MaxDates}

sDigits156 == <<"1", "5", "6">>
sDigits380 == <<"3", "8", "0">>

\* The country argument of a call: names the collaborator resolves or not, ids,
\* and the empty text.
Queries ==
    {Str(sItaly), Str(sChina), Str(sUnknownland), Str(sDigits156), Str(sDigits380),
     Str(<<>>)}

\* The province argument: the default null, the empty text, standardized names.
Provinces == {Null, Str(<<>>), Str(toLowerCase(sHubei)), Str(sMacau)}

InitQuery ==
    /\ MergeIdle
    /\ BuildIdle
    /\ \E feed \in WellFormedFeeds :
           /\ redis = BuiltValue(feed)
           /\ data = JSONParse(redis)
    /\ before = data
    /\ call = NoCall
    /\ outcome = NoOutcome

Find ==
    \E query \in Queries, province \in Provinces :
    \E r \in {getHistoricalCountryDataV2(data, query, province)} :
        /\ before' = data
        /\ call' = [fn |-> "find", query |-> query, province |-> province]
        /\ data' = r.data
        /\ outcome' = r.outcome
        /\ UNCHANGED <<mergeVars, redis, buildVars>>

Aggregate ==
    /\ before' = data
    /\ call' = [fn |-> "aggregate", query |-> Null, province |-> Null]
    /\ outcome' = [kind |-> "sums", value |-> getHistoricalAllDataV2(data)]
    /\ UNCHANGED <<mergeVars, redis, buildVars, data>>

NextQuery == Find \/ Aggregate

SpecQuery == InitQuery /\ [][NextQuery]_vars

(***************************************************************************)
(* What the claims are stated with.                                        *)
(***************************************************************************)
\* The map callback at one index over the tables as parsed, no other row
\* having been touched: the Location built from that row.
RowState(tables) ==
    [threw |-> FALSE, parsedCases |-> tables.cases, parsedDeaths |-> tables.deaths,
     parsedRecovered |-> tables.recovered,
     timelineKey |-> splice4(tables.cases[1]).removed, result |-> <<>>]

LocationOfRow(tables, index) == MapStep(RowState(tables), index).result[1]

\* The Locations of rows 1.. of the tables, as the store holds them.
CompleteCollection(tables) ==
    [json |-> [k \in 1..(Len(tables.cases) - 1) |->
                  JsonLocation(LocationOfRow(tables, k))]]

\* The data Locations of the first pass over the tables of SpecMerge.
FirstPassDone == Len(passes) >= 1 /\ ~passes[1].threw

DataLocations == SubSeq(passes[1].result, 2, Len(passes[1].result))

Metrics == {"cases", "deaths", "recovered"}

HeaderDates == {input.cases[1][j] : j \in 5..Len(input.cases[1])}

\* The tables a run fetched, parsed anew from the response texts.
FetchedTables(r) ==
    [cases |-> parseCsvData(response[r].cases),
     deaths |-> parseCsvData(response[r].deaths),
     recovered |-> parseCsvData(response[r].recovered)]

SetsOf(r) == {i \in 1..Len(setLog) : setLog[i].run = r}

\* A Location without its countryInfo.
Stripped(loc) ==
    [country |-> loc.country, province |-> loc.province, timeline |-> loc.timeline]

Fresh(items) == \A i \in 1..Len(items) : HasCountryInfo(items[i])

\* A province argument that is given: a non-empty text.
ProvinceGiven(province) == province.t = "string" /\ province.s # <<>>

ProvinceAgrees(loc, province) ==
    ProvinceGiven(province) =>
        loc.province.t = "string" /\ loc.province.s = province.s

\* The match predicate of a query on a Location that has its countryInfo,
\* identity being what the query resolves to.
Satisfies(loc, identity, query, province) ==
    /\ IF isNaN(query)
       THEN \E f \in {"country", "iso2", "iso3"} :
                /\ loc.countryInfo[f].t = "string"
                /\ identity[f].t = "string"
                /\ loc.countryInfo[f].s = identity[f].s
       ELSE /\ loc.countryInfo._id.t = "number"
            /\ loc.countryInfo._id.n = Number(query).n
    /\ ProvinceAgrees(loc, province)

MatchesOf(items, identity, query, province) ==
    {i \in 1..Len(items) : HasCountryInfo(items[i])
                           /\ Satisfies(items[i], identity, query, province)}

Matches(items, query, province) ==
    MatchesOf(items, getCountryData(query), query, province)

First(indices) == CHOOSE i \in indices : \A j \in indices : i <= j

RECURSIVE SumOf(_, _, _, _)
SumOf(items, metric, date, i) ==
    IF i > Len(items) THEN 0
    ELSE ObjGet(items[i].timeline[metric], date).n + SumOf(items, metric, date, i + 1)

\* The Locations hold non-negative integer counts under the same date keys.
Summable(items) ==
    \A i \in 1..Len(items) : \A metric \in {"cases", "deaths"} :
        /\ KeySet(items[i].timeline[metric]) = KeySet(items[1].timeline.cases)
        /\ \A e \in 1..Len(items[i].timeline[metric]) :
               /\ items[i].timeline[metric][e].v.t = "number"
               /\ items[i].timeline[metric][e].v.n >= 0

CommonDates(items) == IF items = <<>> THEN {} ELSE KeySet(items[1].timeline.cases)

(***************************************************************************)
(* The claims.                                                             *)
(***************************************************************************)
\* C1: a build run in which a fetch failed logs the failure, performs no
\* store.set and returns normally to its caller: its promise is not rejected.
C1_FetchFailureReturnsNormally ==
    \A r \in Runs :
        (csvData[r] = "null" /\ pc[r] \in {"returned", "rejected"}) =>
            /\ pc[r] = "returned"
            /\ console[r] = <<ErrorLine>>
            /\ SetsOf(r) = {}

\* C2: after a successful build over a cases table of n rows, the value in the
\* store is a sequence of n-1 Locations, the k-th (from 0) being the Location
\* built from row k+1; the record built from the header row is not in it.
C2_PersistsDataRowsInOrder ==
    FirstPassDone =>
        /\ Len(passes[1].writes) = 1
        /\ Len(passes[1].writes[1].json) = Len(input.cases) - 1
        /\ passes[1].writes[1] = CompleteCollection(input)
        /\ \A k \in 1..Len(passes[1].writes[1].json) :
               passes[1].writes[1].json[k] # JsonLocation(passes[1].result[1])
        /\ Len(passes) = 1 => redis = passes[1].writes[1]

C2_Witness ==
    /\ Len(passes) = 1
    /\ ~passes[1].threw
    /\ Len(input.cases) = 3
    /\ Len(redis.json) = 2
    /\ redis.json[1].country # redis.json[2].country

\* C3: every value of timeline.cases, timeline.deaths and timeline.recovered of
\* every Location the row merge produces is a non-negative integer.
C3_CountsAreNonNegativeIntegers ==
    FirstPassDone =>
        \A i \in 1..Len(DataLocations) : \A metric \in Metrics :
            \A e \in 1..Len(DataLocations[i].timeline[metric]) :
                /\ DataLocations[i].timeline[metric][e].v.t = "number"
                /\ DataLocations[i].timeline[metric][e].v.n >= 0

\* C4: for every data row, whatever the number of cells of the row in the three
\* tables, the keys of timeline.cases and of timeline.deaths are exactly the date
\* labels of the cases header, the keys of timeline.recovered are among them, and
\* the merge does not raise.
C4_KeysAreHeaderDates ==
    (Len(passes) >= 1 /\ Len(input.deaths) >= Len(input.cases) /\ input.cases # <<>>) =>
        /\ ~passes[1].threw
        /\ \A i \in 1..Len(DataLocations) :
               /\ KeySet(DataLocations[i].timeline.cases) = HeaderDates
               /\ KeySet(DataLocations[i].timeline.deaths) = HeaderDates
               /\ KeySet(DataLocations[i].timeline.recovered) \subseteq HeaderDates

\* C9: a pass of the merge leaves the three parsed tables as they were, and a
\* second pass over them yields the same Locations as the first.
C9_SecondPassIdentical ==
    /\ Len(passes) >= 1 =>
           /\ parsedCases = input.cases
           /\ parsedDeaths = input.deaths
           /\ parsedRecovered = input.recovered
    /\ Len(passes) >= 2 => passes[2] = passes[1]

\* C8: each run calls store.set at most once, with the complete collection of
\* the tables it fetched, and the value under the key is the previous value or
\* the value of the last set.
C8_OnlyWholeCollectionsStored ==
    /\ \A r \in Runs : Cardinality(SetsOf(r)) <= 1
    /\ \A i \in 1..Len(setLog) :
           /\ pc[setLog[i].run] = "returned"
           /\ setLog[i].value = CompleteCollection(FetchedTables(setLog[i].run))
    /\ redis = IF setLog = <<>> THEN NoValue ELSE setLog[Len(setLog)].value

C8_Witness ==
    /\ Len(setLog) = 2
    /\ setLog[1].run = 2
    /\ setLog[2].run = 1
    /\ setLog[1].value # setLog[2].value
    /\ redis = setLog[2].value
    /\ Len(redis.json) = MaxRows

\* C5: over Locations with the same date keys and non-negative integer counts,
\* the aggregate has exactly those dates as keys of cases and of deaths, and at
\* each date the sum of the Locations' counts.
C5_AggregateIsSum ==
    (call.fn = "aggregate" /\ Summable(before)) =>
        \A metric \in {"cases", "deaths"} :
            /\ KeySet(outcome.value[metric]) = CommonDates(before)
            /\ \A d \in CommonDates(before) :
                   ObjGet(outcome.value[metric], d) = Num(SumOf(before, metric, d, 1))

C5_Witness ==
    /\ call.fn = "aggregate"
    /\ Len(before) = 2
    /\ \E d \in CommonDates(before) :
           /\ ObjGet(before[1].timeline.cases, d) = Num(0)
           /\ ObjGet(before[2].timeline.cases, d).n > 0
           /\ ObjGet(outcome.value.cases, d) = ObjGet(before[2].timeline.cases, d)
    /\ \E d \in CommonDates(before) :
           /\ ObjGet(before[1].timeline.deaths, d).n > 0
           /\ ObjGet(before[2].timeline.deaths, d).n > 0

\* C6: on a freshly built collection, when a Location satisfies the match
\* predicate of the query, find returns the first such Location in collection
\* order, without its countryInfo field.
C6_FindReturnsFirstMatch ==
    (call.fn = "find" /\ Fresh(before)
        /\ Matches(before, call.query, call.province) # {}) =>
        /\ outcome.kind = "value"
        /\ outcome.value =
               Stripped(before[First(Matches(before, call.query, call.province))])
        /\ ~HasCountryInfo(outcome.value)

C6_Witness ==
    /\ call.fn = "find"
    /\ Fresh(before)
    /\ ProvinceGiven(call.province)
    /\ Cardinality(Matches(before, call.query, Null)) = 2
    /\ Matches(before, call.query, call.province) = {2}
    /\ outcome.kind = "value"

\* C7: on a freshly built collection, when no Location satisfies the match
\* predicate of the query, find returns undefined, raises no error and leaves the
\* collection as it was.
C7_NoMatchReturnsUndefined ==
    (call.fn = "find" /\ Fresh(before)
        /\ Matches(before, call.query, call.province) = {}) =>
        /\ outcome.kind = "undefined"
        /\ data = before

C7_Witness ==
    /\ call.fn = "find"
    /\ Fresh(before)
    /\ call.query = Str(sUnknownland)
    /\ \E i \in 1..Len(before) : before[i].countryInfo = nullReturn
    /\ outcome.kind = "undefined"

\* C10: a find that returned a Location has removed countryInfo from exactly
\* that record of the collection; and a later find throws whenever its scan
\* evaluates the identity test on a record without countryInfo before it reaches
\* a match.
C10_StrippedRecordBreaksLaterFinds ==
    /\ outcome.kind = "value" =>
           \E idx \in 1..Len(before) :
               /\ HasCountryInfo(before[idx])
               /\ data = [before EXCEPT ![idx] = Stripped(before[idx])]
               /\ outcome.value = data[idx]
    /\ (call.fn = "find"
        /\ \E j \in 1..Len(before) :
               /\ ~HasCountryInfo(before[j])
               /\ ProvinceAgrees(before[j], call.province)
               /\ \A i \in 1..(j - 1) :
                      i \notin Matches(before, call.query, call.province))
       => outcome.kind = "threw"

C10_Witness ==
    /\ call.fn = "find"
    /\ outcome.kind = "threw"
    /\ Len(before) = 2
    /\ HasCountryInfo(before[1])
    /\ ~HasCountryInfo(before[2])
    /\ ProvinceGiven(call.province)
====
